---- MODULE Spec2Model ----
(***************************************************************************)
(* Async migration 0004_replicated_schema: the plan of reversible          *)
(* operations built from the table catalog, the storage engine's catalog   *)
(* it acts on, the partition mover, and the engine that runs the plan and  *)
(* unwinds it on failure.                                                  *)
(***************************************************************************)
EXTENDS FiniteSets, Naturals, Sequences, TLC

\* ------------------------------------------------------------------ bounds

\* Descriptors kept of each shape (sharded / with kafka table / without),
\* in catalog order.
MaxPerShape == 1
\* Partition identifiers are 1..MaxParts.
MaxParts == 2
\* nodeCount() ranges over 1..MaxNodes.
MaxNodes == 2
\* Rollback actions that an engine error (not the catalog) makes fail, per run.
MaxRollbackFailures == 1
\* Required-ness probes between two runs.
MaxChecks == 2
\* now() ranges over the seconds 1..MaxClock.
MaxClock == 2

Partitions == 1..MaxParts

\* ------------------------------------------------------- table descriptors

NoName == "None"

Suffix == "_0004_replicated_schema"

TableMigrationData(name, kafka) ==
    [name |-> name, sharded |-> FALSE, kafka_table_name |-> kafka,
     rename_to |-> NoName, extra_tables |-> << >>, materialized_view_name |-> NoName]

ShardedTableMigrationData(name, kafka, mv, rename_to, extra) ==
    [name |-> name, sharded |-> TRUE, kafka_table_name |-> kafka,
     rename_to |-> rename_to, extra_tables |-> extra, materialized_view_name |-> mv]

renamed_table_name(table) == IF table.sharded THEN table.rename_to ELSE table.name

backup_table_name(table) == table.name \o "_backup" \o Suffix

tmp_table_name(table) == table.name \o "_tmp" \o Suffix

AllTables ==
    << ShardedTableMigrationData("events", "kafka_events", "events_mv", "sharded_events",
                                 <<"writable_events", "events">>),
       ShardedTableMigrationData("session_recording_events", "kafka_session_recording_events",
                                 "session_recording_events_mv", "sharded_session_recording_events",
                                 <<"writable_session_recording_events", "session_recording_events">>),
       TableMigrationData("events_dead_letter_queue", "kafka_events_dead_letter_queue"),
       TableMigrationData("groups", "kafka_groups"),
       TableMigrationData("person", "kafka_person"),
       TableMigrationData("person_distinct_id2", "kafka_person_distinct_id2"),
       TableMigrationData("plugin_log_entries", "kafka_plugin_log_entries"),
       TableMigrationData("cohortpeople", NoName),
       TableMigrationData("person_static_cohort", NoName) >>

Shape(table) ==
    IF table.sharded THEN "sharded"
    ELSE IF table.kafka_table_name # NoName THEN "kafka" ELSE "plain"

RankInShape(table) ==
    LET i == CHOOSE k \in 1..Len(AllTables) : AllTables[k] = table
    IN  Cardinality({j \in 1..i : Shape(AllTables[j]) = Shape(table)})

InScope(table) == RankInShape(table) <= MaxPerShape

tables_to_migrate == SelectSeq(AllTables, InScope)

Tables == {tables_to_migrate[i] : i \in 1..Len(tables_to_migrate)}

\* ------------------------------------------------------ the storage engine

\* engine_full is a sequence of tokens: the engine family, its parenthesised
\* arguments, then the trailing clauses (PARTITION BY, ORDER BY, ...).
MergeTreeFull ==
    <<"ReplacingMergeTree", "(", "_timestamp", ")", "PARTITION BY", "ORDER BY", "SAMPLE BY">>
Replicated == "ReplicatedReplacingMergeTree"
\* str(new_table_engine) once its zookeeper path key is set.
ReplicatedEngine(zookeeper_path_key) ==
    <<Replicated, "(", zookeeper_path_key, "replica", "_timestamp", ")">>
DistributedFull == <<"Distributed", "(", "cluster", "database", "sharded_table", ")">>
KafkaFull == <<"Kafka", "(", "brokers", "topic", ")">>
ViewFull == <<"MaterializedView">>

MergeTreeFamilies == {"MergeTree", "ReplacingMergeTree", "CollapsingMergeTree",
                      "ReplicatedReplacingMergeTree"}

\* The value of a lookup that finds no row.
None == << >>

Exists(cat, t) == t \in DOMAIN cat

Put(cat, t, row) == [x \in (DOMAIN cat) \cup {t} |-> IF x = t THEN row ELSE cat[x]]

Remove(cat, t) == [x \in (DOMAIN cat) \ {t} |-> cat[x]]

Row(engine_full, parts) == [engine_full |-> engine_full, parts |-> parts]

get_current_engine(cat, table_name) ==
    IF Exists(cat, table_name) THEN cat[table_name].engine_full ELSE None

\* "word" in text, for a text held as tokens.
Contains(text, word) == \E i \in 1..Len(text) : text[i] = word

\* re.sub(r".*MergeTree\([^\)]+\)", new, current): the greedy prefix ends at
\* the last MergeTree-family constructor that has a non-empty argument list;
\* without a match the text is returned as it is.
CtorEnd(text, i) ==
    IF i + 2 <= Len(text) /\ text[i] \in MergeTreeFamilies /\ text[i + 1] = "(" /\ text[i + 2] # ")"
    THEN LET closes == {j \in (i + 3)..Len(text) :
                            text[j] = ")" /\ \A k \in (i + 2)..(j - 1) : text[k] # ")"}
         IN  IF closes = {} THEN 0 ELSE CHOOSE j \in closes : TRUE
    ELSE 0

re_sub(new, current) ==
    LET starts == {i \in 1..Len(current) : CtorEnd(current, i) # 0}
    IN  IF starts = {} THEN current
        ELSE LET i == CHOOSE k \in starts : \A m \in starts : m <= k
             IN  new \o SubSeq(current, CtorEnd(current, i) + 1, Len(current))

\* now().strftime("am0004_%Y%m%d%H%M%S"), for a clock that counts seconds.
strftime(at) == "am0004_" \o ToString(at)

\* Faulty variant of get_new_engine: the key is written after the engine's
\* clauses as well.
get_new_engine_stamped(cat, table, at) ==
    Append(re_sub(ReplicatedEngine(strftime(at)), get_current_engine(cat, table.name)),
           strftime(at))

get_new_engine(cat, table, at) ==
    re_sub(ReplicatedEngine(strftime(at)), get_current_engine(cat, table.name))

\* Statements and actions of an operation.
NoAction == [stmt |-> "None"]
CreateTableAs(t, source, engine_full) ==
    [stmt |-> "CREATE TABLE AS", table |-> t, source |-> source, engine_full |-> engine_full]
CreateTableIfNotExists(t, engine_full) ==
    [stmt |-> "CREATE TABLE IF NOT EXISTS", table |-> t, engine_full |-> engine_full]
DropTableIfExists(t) == [stmt |-> "DROP TABLE IF EXISTS", table |-> t]
SystemMerges(stop) == [stmt |-> "SYSTEM MERGES", stop |-> stop]
SetComputeMaterializedColumns(value) == [stmt |-> "setattr", value |-> value]
MovePartitions(from_table, to_table) ==
    [stmt |-> "move_partitions", from_table |-> from_table, to_table |-> to_table]
RenameTables(rename_1, rename_2, verify_table_exists) ==
    [stmt |-> "rename_tables", rename_1 |-> rename_1, rename_2 |-> rename_2,
     verify_table_exists |-> verify_table_exists]

\* The cluster as the migration sees it.
World(cat, flag, stopped) == [catalog |-> cat, config |-> flag, merges_stopped |-> stopped]

Ok(w) == [ok |-> TRUE, world |-> w]
Raise(w) == [ok |-> FALSE, world |-> w]

\* Faulty variant of sync_execute_rename: the statement holds the first rename only.
sync_execute_rename_first_only(w, rename_1, rename_2) ==
    LET cat == w.catalog
    IN  IF Exists(cat, rename_1[1]) /\ ~Exists(cat, rename_1[2])
        THEN Ok([w EXCEPT !.catalog = Put(Remove(cat, rename_1[1]), rename_1[2], cat[rename_1[1]])])
        ELSE Raise(w)

\* RENAME TABLE a TO b, c TO d: one statement, applied whole or not at all.
sync_execute_rename(w, rename_1, rename_2) ==
    LET cat  == w.catalog
        mid  == Put(Remove(cat, rename_1[1]), rename_1[2], cat[rename_1[1]])
        done == Put(Remove(mid, rename_2[1]), rename_2[2], mid[rename_2[1]])
    IN  IF /\ Exists(cat, rename_1[1]) /\ ~Exists(cat, rename_1[2])
           /\ Exists(mid, rename_2[1]) /\ ~Exists(mid, rename_2[2])
        THEN Ok([w EXCEPT !.catalog = done])
        ELSE Raise(w)

\* Faulty variant of rename_tables: the rename is issued without looking for
\* the table to verify.
rename_tables_unverified(w, a) == sync_execute_rename(w, a.rename_1, a.rename_2)

rename_tables(w, a) ==
    IF a.verify_table_exists # NoName /\ get_current_engine(w.catalog, a.verify_table_exists) = None
    THEN Ok(w)
    ELSE sync_execute_rename(w, a.rename_1, a.rename_2)

sync_execute(w, a) ==
    LET cat == w.catalog IN
    CASE a.stmt = "CREATE TABLE AS" ->
           IF Exists(cat, a.source) /\ ~Exists(cat, a.table)
           THEN Ok([w EXCEPT !.catalog = Put(cat, a.table, Row(a.engine_full, {}))])
           ELSE Raise(w)
      [] a.stmt = "CREATE TABLE IF NOT EXISTS" ->
           IF Exists(cat, a.table) THEN Ok(w)
           ELSE Ok([w EXCEPT !.catalog = Put(cat, a.table, Row(a.engine_full, {}))])
      [] a.stmt = "DROP TABLE IF EXISTS" ->
           Ok([w EXCEPT !.catalog = Remove(cat, a.table)])
      [] a.stmt = "SYSTEM MERGES" -> Ok([w EXCEPT !.merges_stopped = a.stop])
      [] OTHER -> Raise(w)

\* One operation's forward or rollback action, the partition mover apart
\* (it runs statement by statement, see the Move actions).
execute_op(w, a) ==
    CASE a.stmt = "None" -> Ok(w)
      [] a.stmt = "setattr" -> Ok([w EXCEPT !.config = a.value])
      [] a.stmt = "rename_tables" -> rename_tables(w, a)
      [] OTHER -> sync_execute(w, a)

\* --------------------------------------------------------------- the plan

AsyncMigrationOperationSQL(sql, rollback) == [fn |-> sql, rollback_fn |-> rollback]
AsyncMigrationOperation(fn, rollback_fn) == [fn |-> fn, rollback_fn |-> rollback_fn]

create_kafka_table(table) == CreateTableIfNotExists(table.kafka_table_name, KafkaFull)
create_materialized_view(table) == CreateTableIfNotExists(table.materialized_view_name, ViewFull)
extra_table_query(table_name) == CreateTableIfNotExists(table_name, DistributedFull)

\* Faulty variant of replicated_table_operations: the mover's rollback repeats the
\* forward move instead of swapping its arguments.
replicated_table_operations_same_move(cat, table, at) ==
    << AsyncMigrationOperationSQL(
           CreateTableAs(tmp_table_name(table), table.name, get_new_engine(cat, table, at)),
           DropTableIfExists(tmp_table_name(table))) >>
    \o (IF table.kafka_table_name # NoName
        THEN << AsyncMigrationOperationSQL(DropTableIfExists(table.kafka_table_name),
                                           create_kafka_table(table)) >>
        ELSE << >>)
    \o << AsyncMigrationOperation(
              MovePartitions(table.name, tmp_table_name(table)),
              MovePartitions(table.name, tmp_table_name(table))),
          AsyncMigrationOperation(
              RenameTables(<<table.name, backup_table_name(table)>>,
                           <<tmp_table_name(table), renamed_table_name(table)>>, NoName),
              RenameTables(<<renamed_table_name(table), tmp_table_name(table)>>,
                           <<backup_table_name(table), table.name>>,
                           backup_table_name(table))) >>

\* Faulty variant of replicated_table_operations: the ingestion step is yielded
\* for a descriptor without ingestion table too.
replicated_table_operations_with_ingestion(cat, table, at) ==
    << AsyncMigrationOperationSQL(
           CreateTableAs(tmp_table_name(table), table.name, get_new_engine(cat, table, at)),
           DropTableIfExists(tmp_table_name(table))),
       AsyncMigrationOperationSQL(DropTableIfExists(table.kafka_table_name),
                                  create_kafka_table(table)),
       AsyncMigrationOperation(
           MovePartitions(table.name, tmp_table_name(table)),
           MovePartitions(tmp_table_name(table), table.name)),
       AsyncMigrationOperation(
           RenameTables(<<table.name, backup_table_name(table)>>,
                        <<tmp_table_name(table), renamed_table_name(table)>>, NoName),
           RenameTables(<<renamed_table_name(table), tmp_table_name(table)>>,
                        <<backup_table_name(table), table.name>>,
                        backup_table_name(table))) >>

\* Faulty variant of replicated_table_operations: the rename is yielded before
\* the move.
replicated_table_operations_rename_first(cat, table, at) ==
    << AsyncMigrationOperationSQL(
           CreateTableAs(tmp_table_name(table), table.name, get_new_engine(cat, table, at)),
           DropTableIfExists(tmp_table_name(table))) >>
    \o (IF table.kafka_table_name # NoName
        THEN << AsyncMigrationOperationSQL(DropTableIfExists(table.kafka_table_name),
                                           create_kafka_table(table)) >>
        ELSE << >>)
    \o << AsyncMigrationOperation(
              RenameTables(<<table.name, backup_table_name(table)>>,
                           <<tmp_table_name(table), renamed_table_name(table)>>, NoName),
              RenameTables(<<renamed_table_name(table), tmp_table_name(table)>>,
                           <<backup_table_name(table), table.name>>,
                           backup_table_name(table))),
          AsyncMigrationOperation(
              MovePartitions(table.name, tmp_table_name(table)),
              MovePartitions(tmp_table_name(table), table.name)) >>

replicated_table_operations(cat, table, at) ==
    << AsyncMigrationOperationSQL(
           CreateTableAs(tmp_table_name(table), table.name, get_new_engine(cat, table, at)),
           DropTableIfExists(tmp_table_name(table))) >>
    \o (IF table.kafka_table_name # NoName
        THEN << AsyncMigrationOperationSQL(DropTableIfExists(table.kafka_table_name),
                                           create_kafka_table(table)) >>
        ELSE << >>)
    \o << AsyncMigrationOperation(
              MovePartitions(table.name, tmp_table_name(table)),
              MovePartitions(tmp_table_name(table), table.name)),
          AsyncMigrationOperation(
              RenameTables(<<table.name, backup_table_name(table)>>,
                           <<tmp_table_name(table), renamed_table_name(table)>>, NoName),
              RenameTables(<<renamed_table_name(table), tmp_table_name(table)>>,
                           <<backup_table_name(table), table.name>>,
                           backup_table_name(table))) >>

\* Faulty variant of finalize_table_operations: the extra tables are not created.
finalize_table_operations_no_extra(table) ==
    (IF table.sharded /\ table.materialized_view_name # NoName
     THEN << AsyncMigrationOperationSQL(DropTableIfExists(table.materialized_view_name),
                                        NoAction) >>
     ELSE << >>)
    \o (IF table.kafka_table_name # NoName
        THEN << AsyncMigrationOperationSQL(create_kafka_table(table),
                                           DropTableIfExists(table.kafka_table_name)) >>
        ELSE << >>)
    \o (IF table.sharded /\ table.materialized_view_name # NoName
        THEN << AsyncMigrationOperationSQL(create_materialized_view(table),
                                           DropTableIfExists(table.materialized_view_name)) >>
        ELSE << >>)

\* Faulty variant of finalize_table_operations: the stale view is dropped
\* before the extra tables are created.
finalize_table_operations_drop_first(table) ==
    (IF table.sharded /\ table.materialized_view_name # NoName
     THEN << AsyncMigrationOperationSQL(DropTableIfExists(table.materialized_view_name),
                                        NoAction) >>
     ELSE << >>)
    \o (IF table.sharded
        THEN [i \in 1..Len(table.extra_tables) |->
                 AsyncMigrationOperationSQL(extra_table_query(table.extra_tables[i]),
                                            DropTableIfExists(table.extra_tables[i]))]
        ELSE << >>)
    \o (IF table.kafka_table_name # NoName
        THEN << AsyncMigrationOperationSQL(create_kafka_table(table),
                                           DropTableIfExists(table.kafka_table_name)) >>
        ELSE << >>)
    \o (IF table.sharded /\ table.materialized_view_name # NoName
        THEN << AsyncMigrationOperationSQL(create_materialized_view(table),
                                           DropTableIfExists(table.materialized_view_name)) >>
        ELSE << >>)

\* Faulty variant of finalize_table_operations: the view is recreated before
\* the ingestion table it reads from.
finalize_table_operations_view_first(table) ==
    (IF table.sharded
     THEN [i \in 1..Len(table.extra_tables) |->
              AsyncMigrationOperationSQL(extra_table_query(table.extra_tables[i]),
                                         DropTableIfExists(table.extra_tables[i]))]
     ELSE << >>)
    \o (IF table.sharded /\ table.materialized_view_name # NoName
        THEN << AsyncMigrationOperationSQL(DropTableIfExists(table.materialized_view_name),
                                           NoAction),
                AsyncMigrationOperationSQL(create_materialized_view(table),
                                           DropTableIfExists(table.materialized_view_name)) >>
        ELSE << >>)
    \o (IF table.kafka_table_name # NoName
        THEN << AsyncMigrationOperationSQL(create_kafka_table(table),
                                           DropTableIfExists(table.kafka_table_name)) >>
        ELSE << >>)

finalize_table_operations(table) ==
    (IF table.sharded
     THEN [i \in 1..Len(table.extra_tables) |->
              AsyncMigrationOperationSQL(extra_table_query(table.extra_tables[i]),
                                         DropTableIfExists(table.extra_tables[i]))]
     ELSE << >>)
    \o (IF table.sharded /\ table.materialized_view_name # NoName
        THEN << AsyncMigrationOperationSQL(DropTableIfExists(table.materialized_view_name),
                                           NoAction) >>
        ELSE << >>)
    \o (IF table.kafka_table_name # NoName
        THEN << AsyncMigrationOperationSQL(create_kafka_table(table),
                                           DropTableIfExists(table.kafka_table_name)) >>
        ELSE << >>)
    \o (IF table.sharded /\ table.materialized_view_name # NoName
        THEN << AsyncMigrationOperationSQL(create_materialized_view(table),
                                           DropTableIfExists(table.materialized_view_name)) >>
        ELSE << >>)

RECURSIVE flatten(_)
flatten(lists) == IF lists = << >> THEN << >> ELSE Head(lists) \o flatten(Tail(lists))

TABLE_MIGRATION_OPERATIONS(cat, at) ==
    flatten([i \in 1..Len(tables_to_migrate) |->
                replicated_table_operations(cat, tables_to_migrate[i], at)])

RE_ENABLE_INGESTION_OPERATIONS ==
    flatten([i \in 1..Len(tables_to_migrate) |-> finalize_table_operations(tables_to_migrate[i])])

\* Faulty variant of operations: each table's two phases run back to back.
operations_per_table(cat, at) ==
    << AsyncMigrationOperationSQL(SystemMerges(TRUE), SystemMerges(FALSE)),
       AsyncMigrationOperation(SetComputeMaterializedColumns(FALSE),
                               SetComputeMaterializedColumns(TRUE)) >>
    \o flatten([i \in 1..Len(tables_to_migrate) |->
                   replicated_table_operations(cat, tables_to_migrate[i], at)
                       \o finalize_table_operations(tables_to_migrate[i])])
    \o << AsyncMigrationOperation(SetComputeMaterializedColumns(FALSE),
                                  SetComputeMaterializedColumns(TRUE)),
          AsyncMigrationOperationSQL(SystemMerges(FALSE), SystemMerges(TRUE)) >>

\* Faulty variant of operations: the flag is set to enabled after the table
\* work.
operations_reenabled(cat, at) ==
    << AsyncMigrationOperationSQL(SystemMerges(TRUE), SystemMerges(FALSE)),
       AsyncMigrationOperation(SetComputeMaterializedColumns(FALSE),
                               SetComputeMaterializedColumns(TRUE)) >>
    \o TABLE_MIGRATION_OPERATIONS(cat, at)
    \o RE_ENABLE_INGESTION_OPERATIONS
    \o << AsyncMigrationOperation(SetComputeMaterializedColumns(TRUE),
                                  SetComputeMaterializedColumns(FALSE)),
          AsyncMigrationOperationSQL(SystemMerges(FALSE), SystemMerges(TRUE)) >>

operations(cat, at) ==
    << AsyncMigrationOperationSQL(SystemMerges(TRUE), SystemMerges(FALSE)),
       AsyncMigrationOperation(SetComputeMaterializedColumns(FALSE),
                               SetComputeMaterializedColumns(TRUE)) >>
    \o TABLE_MIGRATION_OPERATIONS(cat, at)
    \o RE_ENABLE_INGESTION_OPERATIONS
    \o << AsyncMigrationOperation(SetComputeMaterializedColumns(FALSE),
                                  SetComputeMaterializedColumns(TRUE)),
          AsyncMigrationOperationSQL(SystemMerges(FALSE), SystemMerges(TRUE)) >>

\* ---------------------------------------------------------- introspection

\* Faulty variant of is_required: the engine is searched for the replicated family.
is_required_replicated(cat) ==
    LET engine == get_current_engine(cat, "events")
    IN  IF engine = None THEN "TypeError"
        ELSE IF ~Contains(engine, Replicated) THEN "required" ELSE "not_required"

is_required(cat) ==
    LET engine == get_current_engine(cat, "events")
    IN  IF engine = None THEN "TypeError"
        ELSE IF ~Contains(engine, "Distributed") THEN "required" ELSE "not_required"

get_number_of_nodes_in_cluster(nodes) == nodes

\* Faulty variant of precheck: the node count is compared with 2.
precheck_two_nodes(replication, nodes) ==
    IF ~replication THEN <<FALSE, "CLICKHOUSE_REPLICATION env var needs to be set">>
    ELSE IF get_number_of_nodes_in_cluster(nodes) > 2
         THEN <<FALSE, "cluster should only contain one node">>
         ELSE <<TRUE, "None">>

precheck(replication, nodes) ==
    IF ~replication THEN <<FALSE, "CLICKHOUSE_REPLICATION env var needs to be set">>
    ELSE IF get_number_of_nodes_in_cluster(nodes) > 1
         THEN <<FALSE, "cluster should only contain one node">>
         ELSE <<TRUE, "None">>

\* ------------------------------------------------------------------ state

VARIABLES
    catalog,                  \* system.tables and system.parts: name -> engine_full, active partitions
    config,                   \* COMPUTE_MATERIALIZED_COLUMNS_ENABLED
    merges_stopped,           \* SYSTEM STOP MERGES is in effect
    CLICKHOUSE_REPLICATION,   \* settings.CLICKHOUSE_REPLICATION
    number_of_nodes,          \* replicas visible in the cluster
    status,                   \* the run's status
    current_operation_index,  \* next operation to run forward
    completed,                \* operations whose forward action succeeded, in order
    to_roll_back,             \* completed operations not yet unwound
    attempted,                \* forward actions started, in order
    rolled_back,              \* rollback actions started, in order
    rollback_errors,          \* operations whose rollback raised
    error,                    \* what ended the run
    mover,                    \* the move_partitions call in progress
    catalog_at_start,         \* catalog when the run started
    config_at_start,          \* flag when the run started
    verdicts,                 \* is_required verdicts since the last run ended
    migrated,                 \* a run has reached Completed
    now,                      \* now() as read when the run's plan was built
    plan                      \* self.operations: built once for a run and kept

world_vars == <<catalog, config, merges_stopped>>
env_vars == <<CLICKHOUSE_REPLICATION, number_of_nodes>>
log_vars == <<attempted, rolled_back, rollback_errors>>
start_vars == <<catalog_at_start, config_at_start, migrated, now, plan>>
vars == <<catalog, config, merges_stopped, CLICKHOUSE_REPLICATION, number_of_nodes, status,
          current_operation_index, completed, to_roll_back, attempted, rolled_back,
          rollback_errors, error, mover, catalog_at_start, config_at_start, verdicts,
          migrated, now, plan>>

Error(kind, operation, message) == [kind |-> kind, operation |-> operation, message |-> message]
NoError == Error("None", 0, "None")
Idle == [active |-> FALSE, from_table |-> NoName, to_table |-> NoName,
         running_merges |-> 0, partitions |-> {}, attached |-> 0, late_merges |-> 0]

CurrentWorld == World(catalog, config, merges_stopped)

SetWorld(w) ==
    /\ catalog' = w.catalog
    /\ config' = w.config
    /\ merges_stopped' = w.merges_stopped

\* The schema as deployed before the migration: every table to migrate with
\* its MergeTree engine, its kafka table and its materialized view.
InitialCatalog(parts) ==
    LET names == {t.name : t \in Tables}
        kafka == {t.kafka_table_name : t \in Tables} \ {NoName}
        views == {t.materialized_view_name : t \in Tables} \ {NoName}
    IN  [x \in names \cup kafka \cup views |->
            IF x \in names THEN Row(MergeTreeFull, parts[x])
            ELSE IF x \in kafka THEN Row(KafkaFull, {})
            ELSE Row(ViewFull, {})]

Init ==
    /\ \E parts \in SUBSET Partitions :
          catalog = InitialCatalog([x \in {t.name : t \in Tables} |-> parts])
    /\ config \in BOOLEAN
    /\ merges_stopped = FALSE
    /\ CLICKHOUSE_REPLICATION \in BOOLEAN
    /\ number_of_nodes \in 1..MaxNodes
    /\ status = "NotStarted"
    /\ current_operation_index = 1
    /\ completed = << >>
    /\ to_roll_back = << >>
    /\ attempted = << >>
    /\ rolled_back = << >>
    /\ rollback_errors = << >>
    /\ error = NoError
    /\ mover = Idle
    /\ catalog_at_start = catalog
    /\ config_at_start = config
    /\ verdicts = << >>
    /\ migrated = FALSE
    /\ now = 1
    /\ plan = operations(catalog_at_start, now)

\* ------------------------------------------------------------- the engine

\* Faulty variant of CheckRequired: the check marks the migration as seen.
CheckRequiredMarks ==
    /\ status = "NotStarted"
    /\ Len(verdicts) < MaxChecks
    /\ verdicts' = Append(verdicts, IF verdicts = << >> THEN is_required(catalog)
                                    ELSE "not_required")
    /\ UNCHANGED <<world_vars, env_vars, status, current_operation_index, completed,
                   to_roll_back, log_vars, error, mover, start_vars>>

\* The required-ness check, asked outside a run.
CheckRequired ==
    /\ status = "NotStarted"
    /\ Len(verdicts) < MaxChecks
    /\ verdicts' = Append(verdicts, is_required(catalog))
    /\ UNCHANGED <<world_vars, env_vars, status, current_operation_index, completed,
                   to_roll_back, log_vars, error, mover, start_vars>>

\* A run starts with the required-ness check.
StartRun ==
    /\ status = "NotStarted"
    /\ LET verdict == is_required(catalog)
       IN  /\ status' = CASE verdict = "not_required" -> "SkippedNotRequired"
                          [] verdict = "required" -> "PreconditionChecking"
                          [] OTHER -> "Failed"
           /\ error' = IF verdict = "TypeError"
                       THEN Error("TypeError", 0, "argument of type 'NoneType' is not iterable")
                       ELSE NoError
    /\ catalog_at_start' = catalog
    /\ config_at_start' = config
    /\ now' \in now..MaxClock
    /\ plan' = operations(catalog, now')
    /\ verdicts' = << >>
    /\ UNCHANGED migrated
    /\ UNCHANGED <<world_vars, env_vars, current_operation_index, completed, to_roll_back,
                   log_vars, mover>>

\* Faulty variant of Precheck: the failure is recorded and the run starts anyway.
PrecheckThenRun ==
    /\ status = "PreconditionChecking"
    /\ LET result == precheck(CLICKHOUSE_REPLICATION, number_of_nodes)
       IN  /\ status' = "Running"
           /\ error' = IF result[1] THEN NoError ELSE Error("PreconditionError", 0, result[2])
    /\ UNCHANGED <<world_vars, env_vars, current_operation_index, completed, to_roll_back,
                   log_vars, mover, start_vars, verdicts>>

Precheck ==
    /\ status = "PreconditionChecking"
    /\ LET result == precheck(CLICKHOUSE_REPLICATION, number_of_nodes)
       IN  /\ status' = IF result[1] THEN "Running" ELSE "Failed"
           /\ error' = IF result[1] THEN NoError ELSE Error("PreconditionError", 0, result[2])
    /\ UNCHANGED <<world_vars, env_vars, current_operation_index, completed, to_roll_back,
                   log_vars, mover, start_vars, verdicts>>

\* The forward action of operation i returned.
Succeeded(i) ==
    /\ completed' = Append(completed, i)
    /\ current_operation_index' = i + 1
    /\ UNCHANGED <<status, to_roll_back, error, rollback_errors>>

\* Faulty variant of Raised: the unwind takes the completed operations oldest first.
RaisedOldestFirst(i) ==
    /\ status' = "RollingBack"
    /\ error' = Error("OperationError", i, "None")
    /\ to_roll_back' = [j \in 1..Len(completed) |-> completed[Len(completed) + 1 - j]]
    /\ UNCHANGED <<completed, current_operation_index, rollback_errors>>

\* The forward action of operation i raised: halt and unwind the completed ones.
Raised(i) ==
    /\ status' = "RollingBack"
    /\ error' = Error("OperationError", i, "None")
    /\ to_roll_back' = completed
    /\ UNCHANGED <<completed, current_operation_index, rollback_errors>>

Forward ==
    /\ status = "Running"
    /\ ~mover.active
    /\ current_operation_index <= Len(plan)

IsMove(a) == a.stmt = "move_partitions"

ForwardOp ==
    /\ Forward
    /\ LET i == current_operation_index
           result == execute_op(CurrentWorld, plan[i].fn)
       IN  /\ ~IsMove(plan[i].fn)
           /\ attempted' = Append(attempted, i)
           /\ SetWorld(result.world)
           /\ IF result.ok THEN Succeeded(i) ELSE Raised(i)
    /\ UNCHANGED <<env_vars, rolled_back, mover, start_vars, verdicts>>

\* The storage engine rejects or times out the operation's first statement.
ForwardOpError ==
    /\ Forward
    /\ attempted' = Append(attempted, current_operation_index)
    /\ Raised(current_operation_index)
    /\ UNCHANGED <<world_vars, env_vars, rolled_back, mover, start_vars, verdicts>>

\* Faulty variant of Complete: the run is marked completed between two operations.
CompleteEarly ==
    /\ status = "Running"
    /\ ~mover.active
    /\ status' = "Completed"
    /\ migrated' = TRUE
    /\ UNCHANGED <<world_vars, env_vars, current_operation_index, completed, to_roll_back,
                   log_vars, error, mover, catalog_at_start, config_at_start, verdicts, now,
                   plan>>

Complete ==
    /\ status = "Running"
    /\ current_operation_index > Len(plan)
    /\ status' = "Completed"
    /\ migrated' = TRUE
    /\ UNCHANGED <<world_vars, env_vars, current_operation_index, completed, to_roll_back,
                   log_vars, error, mover, catalog_at_start, config_at_start, verdicts, now,
                   plan>>

\* The unwind: the completed operations' rollbacks, last completed first.
Unwinding ==
    /\ status = "RollingBack"
    /\ ~mover.active
    /\ to_roll_back # << >>

Top == to_roll_back[Len(to_roll_back)]

\* Faulty variant of Unwound: a rollback that raises ends the unwind.
UnwoundHalts(i, ok) ==
    /\ to_roll_back' = IF ok THEN SubSeq(to_roll_back, 1, Len(to_roll_back) - 1) ELSE << >>
    /\ rollback_errors' = IF ok THEN rollback_errors ELSE Append(rollback_errors, i)
    /\ UNCHANGED <<status, completed, current_operation_index, error>>

\* Faulty variant of Unwound: a rollback that raised is tried again.
UnwoundRetries(i, ok) ==
    /\ to_roll_back' = IF ok THEN SubSeq(to_roll_back, 1, Len(to_roll_back) - 1) ELSE to_roll_back
    /\ rollback_errors' = IF ok THEN rollback_errors ELSE Append(rollback_errors, i)
    /\ UNCHANGED <<status, completed, current_operation_index, error>>

\* The rollback of operation i returned (ok) or raised: the error is logged
\* and the unwind goes on with the next-earlier operation.
Unwound(i, ok) ==
    /\ to_roll_back' = SubSeq(to_roll_back, 1, Len(to_roll_back) - 1)
    /\ rollback_errors' = IF ok THEN rollback_errors ELSE Append(rollback_errors, i)
    /\ UNCHANGED <<status, completed, current_operation_index, error>>

RollbackOp ==
    /\ Unwinding
    /\ LET result == execute_op(CurrentWorld, plan[Top].rollback_fn)
       IN  /\ ~IsMove(plan[Top].rollback_fn)
           /\ rolled_back' = Append(rolled_back, Top)
           /\ SetWorld(result.world)
           /\ Unwound(Top, result.ok)
    /\ UNCHANGED <<env_vars, attempted, mover, start_vars, verdicts>>

\* The storage engine rejects or times out the rollback's first statement.
RollbackOpError ==
    /\ Unwinding
    /\ plan[Top].rollback_fn # NoAction
    /\ Len(rollback_errors) < MaxRollbackFailures
    /\ rolled_back' = Append(rolled_back, Top)
    /\ Unwound(Top, FALSE)
    /\ UNCHANGED <<world_vars, env_vars, attempted, mover, start_vars, verdicts>>

FinishRollback ==
    /\ status = "RollingBack"
    /\ ~mover.active
    /\ to_roll_back = << >>
    /\ status' = "RolledBack"
    /\ UNCHANGED <<world_vars, env_vars, current_operation_index, completed, to_roll_back,
                   log_vars, error, mover, start_vars, verdicts>>

\* ---------------------------------------------------- the partition mover

\* The move_partitions call the engine is at: a forward action or a rollback.
MoveCall ==
    IF status = "Running" THEN plan[current_operation_index].fn ELSE plan[Top].rollback_fn

AtMove == (Forward \/ Unwinding) /\ IsMove(MoveCall)

MoveReturned ==
    IF status = "Running" THEN Succeeded(current_operation_index) ELSE Unwound(Top, TRUE)

MoveRaised ==
    IF status = "Running" THEN Raised(current_operation_index) ELSE Unwound(Top, FALSE)

MoveContinues ==
    UNCHANGED <<status, completed, current_operation_index, to_roll_back, error, rollback_errors>>

\* system.merges for a table: nothing merges once merges are stopped.
running_merges(stopped) == IF stopped THEN {0} ELSE {0, 1}

active_partitions(cat, table_name) ==
    IF Exists(cat, table_name) THEN cat[table_name].parts ELSE {}

\* Faulty variant of AttachPartition: the statement returns and attaches nothing.
AttachPartitionNowhere(cat, to_table, partition, from_table) == cat

AttachPartition(cat, to_table, partition, from_table) ==
    [cat EXCEPT ![to_table].parts = @ \cup ({partition} \cap cat[from_table].parts)]

\* Faulty variant of DropPartition: the statement returns and drops nothing.
DropPartitionKept(cat, from_table, partition) == cat

DropPartition(cat, from_table, partition) ==
    [cat EXCEPT ![from_table].parts = @ \ {partition}]

\* Faulty variant of MoveBegin: the count of running merges is read and not asserted.
MoveBeginNoAssert ==
    /\ AtMove
    /\ IF status = "Running"
       THEN attempted' = Append(attempted, current_operation_index) /\ UNCHANGED rolled_back
       ELSE rolled_back' = Append(rolled_back, Top) /\ UNCHANGED attempted
    /\ \E merges \in running_merges(merges_stopped) :
          LET partitions == active_partitions(catalog, MoveCall.from_table)
          IN  IF partitions = {} THEN MoveReturned /\ mover' = Idle
              ELSE /\ MoveContinues
                   /\ mover' = [active |-> TRUE, from_table |-> MoveCall.from_table,
                                to_table |-> MoveCall.to_table, running_merges |-> merges,
                                partitions |-> partitions, attached |-> 0,
                                late_merges |-> 0]
    /\ UNCHANGED <<world_vars, env_vars, start_vars, verdicts>>

\* The assert on running merges, then the list of active partitions.
MoveBegin ==
    /\ AtMove
    /\ IF status = "Running"
       THEN attempted' = Append(attempted, current_operation_index) /\ UNCHANGED rolled_back
       ELSE rolled_back' = Append(rolled_back, Top) /\ UNCHANGED attempted
    /\ \E merges \in running_merges(merges_stopped) :
          LET partitions == active_partitions(catalog, MoveCall.from_table)
          IN  IF merges # 0 THEN MoveRaised /\ mover' = [Idle EXCEPT !.running_merges = merges]
              ELSE IF partitions = {} THEN MoveReturned /\ mover' = Idle
              ELSE /\ MoveContinues
                   /\ mover' = [active |-> TRUE, from_table |-> MoveCall.from_table,
                                to_table |-> MoveCall.to_table, running_merges |-> merges,
                                partitions |-> partitions, attached |-> 0,
                                late_merges |-> 0]
    /\ UNCHANGED <<world_vars, env_vars, start_vars, verdicts>>

\* Faulty variant of MoveAttach: the loop goes to the DROP without the ATTACH.
MoveAttachSkipped ==
    /\ mover.active
    /\ mover.attached = 0
    /\ \E partition \in mover.partitions :
          /\ mover' = [mover EXCEPT !.attached = partition]
          /\ MoveContinues
          /\ UNCHANGED catalog
    /\ UNCHANGED <<config, merges_stopped, env_vars, attempted, rolled_back, start_vars, verdicts>>

\* ALTER TABLE to_table ATTACH PARTITION p FROM from_table
MoveAttach ==
    /\ mover.active
    /\ mover.attached = 0
    /\ \E partition \in mover.partitions :
          IF Exists(catalog, mover.to_table) /\ Exists(catalog, mover.from_table)
          THEN /\ catalog' = AttachPartition(catalog, mover.to_table, partition, mover.from_table)
               /\ mover' = [mover EXCEPT !.attached = partition]
               /\ MoveContinues
          ELSE /\ MoveRaised
               /\ mover' = Idle
               /\ UNCHANGED catalog
    /\ UNCHANGED <<config, merges_stopped, env_vars, attempted, rolled_back, start_vars, verdicts>>

\* Faulty variant of MoveDrop: the active partitions are listed again after
\* every DROP, and the loop goes on until none is left.
MoveDropListsAgain ==
    /\ mover.active
    /\ mover.attached # 0
    /\ IF Exists(catalog, mover.from_table)
       THEN /\ catalog' = DropPartition(catalog, mover.from_table, mover.attached)
            /\ LET rest == active_partitions(catalog', mover.from_table)
               IN  IF rest = {}
                   THEN MoveReturned /\ mover' = [Idle EXCEPT !.late_merges = mover.late_merges]
                   ELSE MoveContinues /\ mover' = [mover EXCEPT !.partitions = rest, !.attached = 0]
       ELSE /\ MoveRaised
            /\ mover' = Idle
            /\ UNCHANGED catalog
    /\ UNCHANGED <<config, merges_stopped, env_vars, attempted, rolled_back, start_vars, verdicts>>

\* ALTER TABLE from_table DROP PARTITION p, then the next partition or the return.
MoveDrop ==
    /\ mover.active
    /\ mover.attached # 0
    /\ LET rest == mover.partitions \ {mover.attached}
       IN  IF Exists(catalog, mover.from_table)
           THEN /\ catalog' = DropPartition(catalog, mover.from_table, mover.attached)
                /\ IF rest = {}
                   THEN MoveReturned /\ mover' = [Idle EXCEPT !.late_merges = mover.late_merges]
                   ELSE MoveContinues /\ mover' = [mover EXCEPT !.partitions = rest, !.attached = 0]
           ELSE /\ MoveRaised
                /\ mover' = Idle
                /\ UNCHANGED catalog
    /\ UNCHANGED <<config, merges_stopped, env_vars, attempted, rolled_back, start_vars, verdicts>>

\* The storage engine rejects or times out the mover's next statement.
MoveFails ==
    /\ mover.active
    /\ MoveRaised
    /\ mover' = Idle
    /\ UNCHANGED <<world_vars, env_vars, attempted, rolled_back, start_vars, verdicts>>

MoveError == status = "Running" /\ MoveFails

MoveErrorInRollback ==
    /\ status = "RollingBack"
    /\ Len(rollback_errors) < MaxRollbackFailures
    /\ MoveFails

\* -------------------------------------------------------- later invocations

\* The migration is invoked again after a run that changed nothing or that
\* completed; the settings and the cluster may have changed in between.
Reinvoke ==
    /\ status \in {"Completed", "SkippedNotRequired", "Failed"}
    /\ status' = "NotStarted"
    /\ CLICKHOUSE_REPLICATION' \in BOOLEAN
    /\ number_of_nodes' \in 1..MaxNodes
    /\ current_operation_index' = 1
    /\ completed' = << >>
    /\ to_roll_back' = << >>
    /\ attempted' = << >>
    /\ rolled_back' = << >>
    /\ rollback_errors' = << >>
    /\ error' = NoError
    /\ UNCHANGED <<world_vars, mover, start_vars, verdicts>>

Next ==
    \/ CheckRequired
    \/ StartRun
    \/ Precheck
    \/ ForwardOp
    \/ ForwardOpError
    \/ Complete
    \/ RollbackOp
    \/ FinishRollback
    \/ MoveBegin
    \/ MoveAttach
    \/ MoveDrop
    \/ MoveError
    \/ Reinvoke

Spec == Init /\ [][Next]_vars

\* The same engine when rollback actions may fail too.
NextUnwind == Next \/ RollbackOpError \/ MoveErrorInRollback

SpecUnwind == Init /\ [][NextUnwind]_vars

\* A run that has started goes on: the engine is a sequential loop over the
\* plan and every forward action, rollback action and mover statement
\* returns or fails, so a step of the run that stays possible is taken.
RunStep ==
    \/ Precheck \/ ForwardOp \/ Complete \/ RollbackOp \/ FinishRollback
    \/ MoveBegin \/ MoveAttach \/ MoveDrop

SpecLive == Init /\ [][NextUnwind]_vars /\ WF_vars(RunStep)

\* The operator runs the migration again, some seconds after a run that was
\* rolled back; the catalog is as the unwind left it.
Retry ==
    /\ status = "RolledBack"
    /\ status' = "NotStarted"
    /\ now' \in (now + 1)..MaxClock
    /\ plan' = operations(catalog_at_start, now')
    /\ current_operation_index' = 1
    /\ completed' = << >>
    /\ to_roll_back' = << >>
    /\ attempted' = << >>
    /\ rolled_back' = << >>
    /\ rollback_errors' = << >>
    /\ error' = NoError
    /\ UNCHANGED <<world_vars, env_vars, mover, catalog_at_start, config_at_start, migrated,
                   verdicts>>

NextRetry == NextUnwind \/ Retry

SpecRetry == Init /\ [][NextRetry]_vars

\* ------------------------------------------------------------ vocabulary

Range(seq) == {seq[i] : i \in 1..Len(seq)}

UpTo(n) == [i \in 1..n |-> i]

\* The names one descriptor's data table goes by during the migration.
Lineage(table) ==
    {table.name, tmp_table_name(table), backup_table_name(table), renamed_table_name(table)}

\* Every name one descriptor's operations act on.
Family(table) ==
    Lineage(table) \cup Range(table.extra_tables)
        \cup ({table.kafka_table_name, table.materialized_view_name} \ {NoName})

Views == {t.materialized_view_name : t \in Tables} \ {NoName}

\* The table a forward action first names.
Subject(a) ==
    CASE a.stmt \in {"CREATE TABLE AS", "CREATE TABLE IF NOT EXISTS", "DROP TABLE IF EXISTS"} -> a.table
      [] a.stmt = "move_partitions" -> a.from_table
      [] a.stmt = "rename_tables" -> a.rename_1[1]
      [] OTHER -> NoName

\* Position in the catalog of the descriptor an operation belongs to, 0 for
\* the operations that bracket the plan.
Owner(op) ==
    LET owners == {i \in 1..Len(tables_to_migrate) : Subject(op.fn) \in Family(tables_to_migrate[i])}
    IN  IF owners = {} THEN 0 ELSE CHOOSE i \in owners : TRUE

OperationsOf(table) ==
    LET ops == plan
        family == Family(table)
    IN  {i \in 1..Len(ops) : Subject(ops[i].fn) \in family}

\* Phase 2 (re-enable ingestion) creates extra, kafka and view tables and
\* drops the stale view; phase 1 (replace engine) is the rest of a
\* descriptor's operations.
IsPhase2(op) ==
    \/ op.fn.stmt = "CREATE TABLE IF NOT EXISTS"
    \/ op.fn.stmt = "DROP TABLE IF EXISTS" /\ op.fn.table \in Views

IsPhase1(op) == Owner(op) # 0 /\ ~IsPhase2(op)

RenamePending(table) ==
    LET ops == plan
    IN  \E i \in OperationsOf(table) : ops[i].fn.stmt = "rename_tables" /\ i \notin Range(completed)

\* ------------------------------------------------- operations called alone

\* Where a descriptor's move and rename stand in a plan.
MoveIndex(ops, table) ==
    CHOOSE i \in 1..Len(ops) : ops[i].fn = MovePartitions(table.name, tmp_table_name(table))

RenameIndex(ops, table) == MoveIndex(ops, table) + 1

\* The engine stands at one descriptor's move, or at the rollback of its
\* rename when the rename did not run; the table and its tmp table hold
\* partitions drawn from the bounded sets and merges may be running.
InitCalls ==
    \E table \in Tables, from_parts \in SUBSET Partitions, to_parts \in SUBSET Partitions,
       unwinding \in BOOLEAN :
        LET deployed == InitialCatalog([x \in {t.name : t \in Tables} |-> from_parts])
            cat == Put(deployed, tmp_table_name(table),
                       Row(get_new_engine(deployed, table, 1), to_parts))
            i == IF unwinding THEN RenameIndex(operations(cat, 1), table)
                 ELSE MoveIndex(operations(cat, 1), table)
        IN  /\ catalog = cat
            /\ catalog_at_start = cat
            /\ current_operation_index = i
            /\ completed = UpTo(i - 1)
            /\ attempted = IF unwinding THEN UpTo(i) ELSE UpTo(i - 1)
            /\ to_roll_back = IF unwinding THEN UpTo(i) ELSE << >>
            /\ status = IF unwinding THEN "RollingBack" ELSE "Running"
            /\ error = IF unwinding THEN Error("OperationError", i, "None") ELSE NoError
    /\ merges_stopped \in BOOLEAN
    /\ config = FALSE
    /\ config_at_start = FALSE
    /\ CLICKHOUSE_REPLICATION = TRUE
    /\ number_of_nodes = 1
    /\ rolled_back = << >>
    /\ rollback_errors = << >>
    /\ mover = Idle
    /\ verdicts = << >>
    /\ migrated = FALSE
    /\ now = 1
    /\ plan = operations(catalog_at_start, now)

\* The rename after the move.
Rename == ForwardOp /\ plan[current_operation_index].fn.stmt = "rename_tables"

\* The rename, or the operation after it, is rejected by the storage engine.
AfterMoveError ==
    /\ ForwardOpError
    /\ current_operation_index > 1
    /\ plan[current_operation_index - 1].fn.stmt \in {"move_partitions", "rename_tables"}

\* The rollback of the rename.
RenameRollback == RollbackOp /\ plan[Top].rollback_fn.stmt = "rename_tables"

NextCalls ==
    \/ MoveBegin
    \/ MoveAttach
    \/ MoveDrop
    \/ MoveError
    \/ MoveErrorInRollback
    \/ Rename
    \/ AfterMoveError
    \/ RenameRollback

SpecCalls == InitCalls /\ [][NextCalls]_vars

\* ------------------------------------- a move with background activity

\* The data table the ingestion table of a descriptor writes to.
Ingesting(cat, table_name) ==
    \E t \in Tables :
        /\ t.name = table_name
        /\ t.kafka_table_name # NoName
        /\ Exists(cat, t.kafka_table_name)

\* A background merge becomes active on the from-table after the mover has
\* read system.merges; SYSTEM STOP MERGES lets none start.
MergeStarts ==
    /\ mover.active
    /\ ~merges_stopped
    /\ mover.late_merges = 0
    /\ mover' = [mover EXCEPT !.late_merges = 1]
    /\ UNCHANGED <<world_vars, env_vars, status, current_operation_index, completed,
                   to_roll_back, log_vars, error, start_vars, verdicts>>

\* The ingestion table writes a partition into the from-table after the
\* mover has read system.parts; without ingestion table nothing is written.
PartitionArrives ==
    /\ mover.active
    /\ Ingesting(catalog, mover.from_table)
    /\ \E partition \in Partitions \ active_partitions(catalog, mover.from_table) :
          catalog' = [catalog EXCEPT ![mover.from_table].parts = @ \cup {partition}]
    /\ UNCHANGED <<config, merges_stopped, env_vars, status, current_operation_index,
                   completed, to_roll_back, log_vars, error, mover, start_vars, verdicts>>

\* move_partitions called for one descriptor's table, forward, with merges
\* stopped or not and the ingestion table dropped or not.
InitRace ==
    \E table \in Tables, from_parts \in SUBSET Partitions, ingesting \in BOOLEAN :
        LET deployed == InitialCatalog([x \in {t.name : t \in Tables} |-> from_parts])
            created == Put(deployed, tmp_table_name(table),
                           Row(get_new_engine(deployed, table, 1), {}))
            cat == IF ingesting \/ table.kafka_table_name = NoName THEN created
                   ELSE Remove(created, table.kafka_table_name)
            i == MoveIndex(operations(deployed, 1), table)
        IN  /\ catalog = cat
            /\ catalog_at_start = deployed
            /\ current_operation_index = i
            /\ completed = UpTo(i - 1)
            /\ attempted = UpTo(i - 1)
    /\ merges_stopped \in BOOLEAN
    /\ to_roll_back = << >>
    /\ status = "Running"
    /\ error = NoError
    /\ config = FALSE
    /\ config_at_start = FALSE
    /\ CLICKHOUSE_REPLICATION = TRUE
    /\ number_of_nodes = 1
    /\ rolled_back = << >>
    /\ rollback_errors = << >>
    /\ mover = Idle
    /\ verdicts = << >>
    /\ migrated = FALSE
    /\ now = 1
    /\ plan = operations(catalog_at_start, now)

NextRace ==
    \/ MoveBegin
    \/ MoveAttach
    \/ MoveDrop
    \/ MoveError
    \/ MergeStarts
    \/ PartitionArrives

SpecRace == InitRace /\ [][NextRace]_vars

\* ---------------------------------------------------------------- claims

Held(cat, table) == UNION {active_partitions(cat, x) : x \in Lineage(table)}

Restored(table) ==
    \A x \in Family(table) \ Views :
        /\ Exists(catalog, x) <=> Exists(catalog_at_start, x)
        /\ Exists(catalog, x) => catalog[x] = catalog_at_start[x]

\* C3: when every operation of a descriptor's expansion has run forward and
\* the rollbacks have then run in reverse order, the descriptor's tables are
\* as they were before the run, the materialized view apart.
C3_RoundTripRestoresCatalog ==
    (status = "RolledBack" /\ rollback_errors = << >>) =>
        \A t \in Tables :
            (\A i \in OperationsOf(t) : i < error.operation) => Restored(t)

C3_Witness ==
    /\ status = "RolledBack"
    /\ rollback_errors = << >>
    /\ error.operation = Len(plan)
    /\ \A t \in Tables : active_partitions(catalog, t.name) = Partitions
    /\ \E v \in Views : Exists(catalog_at_start, v) /\ ~Exists(catalog, v)

\* The run passed the precondition check.
Started == status \in {"Running", "RollingBack", "RolledBack", "Completed"}

\* C4: the precondition check fails, with a message, when replication is
\* disabled or more than one node is visible, and passes otherwise; the
\* replication flag is tested first.
C4_PrecheckGate ==
    /\ Started => CLICKHOUSE_REPLICATION /\ number_of_nodes <= 1
    /\ error.kind = "PreconditionError" =>
          /\ ~CLICKHOUSE_REPLICATION \/ number_of_nodes > 1
          /\ error.message # "None"
          /\ ~CLICKHOUSE_REPLICATION <=>
                error.message = "CLICKHOUSE_REPLICATION env var needs to be set"
    /\ (status = "Failed" /\ error.kind = "None") => FALSE

C4_Witness ==
    /\ error.kind = "PreconditionError"
    /\ CLICKHOUSE_REPLICATION
    /\ number_of_nodes = 2

\* C5: a run whose precondition check failed never runs an operation, forward
\* or rollback, and leaves the catalog, the merges and the flag as they were.
C5_PreconditionFailureRunsNothing ==
    error.kind = "PreconditionError" =>
        /\ status = "Failed"
        /\ attempted = << >> /\ completed = << >> /\ rolled_back = << >>
        /\ ~mover.active
        /\ catalog = catalog_at_start
        /\ config = config_at_start

C5_Witness ==
    /\ error.kind = "PreconditionError"
    /\ ~CLICKHOUSE_REPLICATION
    /\ \E t \in Tables : active_partitions(catalog, t.name) # {}

\* C6: a run started while the engine of `events` names the Distributed
\* topology ends SkippedNotRequired: no precondition is evaluated and no
\* operation runs, whatever the node count and the replication flag.
C6_RequiredCheckedFirst ==
    (/\ status # "NotStarted"
     /\ Exists(catalog_at_start, "events")
     /\ Contains(catalog_at_start["events"].engine_full, "Distributed")) =>
        /\ status = "SkippedNotRequired"
        /\ error = NoError
        /\ attempted = << >> /\ rolled_back = << >>
        /\ catalog = catalog_at_start

C6_Witness ==
    /\ status = "SkippedNotRequired"
    /\ number_of_nodes > 1
    /\ ~CLICKHOUSE_REPLICATION

\* C7: once a run has reached Completed, `events` is the distributed facade
\* and the required-ness check says not required; from then on no step
\* changes the catalog and no invocation gets past the required-ness check.
C7_CompletedIsNotRequired ==
    /\ [](status = "Completed" =>
            /\ get_current_engine(catalog, "events") = DistributedFull
            /\ is_required(catalog) = "not_required")
    /\ [][migrated => /\ catalog' = catalog
                      /\ status' \in {"NotStarted", "SkippedNotRequired"}
                      /\ attempted' = << >>]_vars

C7_Witness ==
    /\ migrated
    /\ status = "SkippedNotRequired"
    /\ CLICKHOUSE_REPLICATION /\ number_of_nodes = 1

C9_PhasesGloballyOrdered ==
    status = "Running" =>
        LET ops      == plan
            tableOps == SelectSeq(ops, LAMBDA op : Owner(op) # 0)
            phase(op) == IF IsPhase2(op) THEN 2 ELSE 1
            renames  == {i \in 1..Len(ops) : ops[i].fn.stmt = "rename_tables"}
        IN  /\ \A i \in 1..(Len(tableOps) - 1) :
                  \/ phase(tableOps[i]) < phase(tableOps[i + 1])
                  \/ /\ phase(tableOps[i]) = phase(tableOps[i + 1])
                     /\ Owner(tableOps[i]) <= Owner(tableOps[i + 1])
            /\ ~(renames \subseteq Range(completed)) =>
                  \A k \in Range(attempted) : ~IsPhase2(ops[k])

C9_Witness ==
    /\ status = "Running"
    /\ LET ops == plan IN \E k \in Range(completed) : IsPhase2(ops[k]) /\ Owner(ops[k]) > 1
    /\ \A t \in Tables : ~RenamePending(t)

\* Only one of the two renames of a rename statement has taken effect.
HalfRenamed(cat, table) ==
    \/ Exists(cat, backup_table_name(table)) /\ Exists(cat, tmp_table_name(table))
    \/ /\ renamed_table_name(table) # table.name
       /\ Exists(cat, renamed_table_name(table))
       /\ ~Exists(cat, backup_table_name(table))

\* C10: the two renames of phase 1 take effect together: no state has one
\* without the other, and the table is always there under its old name or
\* under its new one.
C10_RenameIsAtomic ==
    \A t \in Tables :
        /\ ~HalfRenamed(catalog, t)
        /\ Exists(catalog, t.name) \/ Exists(catalog, renamed_table_name(t))
        /\ Exists(catalog, backup_table_name(t)) =>
              /\ Exists(catalog, renamed_table_name(t))
              /\ catalog[renamed_table_name(t)].engine_full[1] = Replicated
              /\ catalog[backup_table_name(t)].engine_full = MergeTreeFull

C10_Witness ==
    /\ status = "Running"
    /\ \A t \in Tables : Exists(catalog, backup_table_name(t)) /\ ~Exists(catalog, tmp_table_name(t))
    /\ \E t \in Tables : renamed_table_name(t) # t.name /\ ~Exists(catalog, t.name)

\* The step is the rollback of a rename.
RenameRollbackCalled ==
    /\ status = "RollingBack"
    /\ ~mover.active
    /\ to_roll_back # << >>
    /\ plan[Top].rollback_fn.stmt = "rename_tables"
    /\ to_roll_back' # to_roll_back

\* C11: a rename rollback invoked while the backup table is absent (the
\* forward rename did not run) renames nothing, does not raise and leaves
\* the catalog as it is; invoked while the backup table exists it renames
\* the renamed table to the tmp name and the backup table to the old name.
C11_RenameRollbackRobust ==
    [][RenameRollbackCalled =>
          LET a == plan[Top].rollback_fn
              t == CHOOSE x \in Tables : backup_table_name(x) = a.verify_table_exists
              others == (DOMAIN catalog) \ Lineage(t)
          IN  /\ rollback_errors' = rollback_errors
              /\ IF ~Exists(catalog, backup_table_name(t))
                 THEN catalog' = catalog
                 ELSE /\ DOMAIN catalog' = others \cup {t.name, tmp_table_name(t)}
                      /\ catalog'[tmp_table_name(t)] = catalog[renamed_table_name(t)]
                      /\ catalog'[t.name] = catalog[backup_table_name(t)]
                      /\ \A x \in others : catalog'[x] = catalog[x]]_vars

\* The rollback of a rename that did not run has returned.
C11_Witness ==
    /\ status = "RollingBack"
    /\ rollback_errors = << >>
    /\ \E t \in Tables :
          /\ t.sharded
          /\ rolled_back = <<RenameIndex(plan, t)>>
          /\ RenameIndex(plan, t) \notin Range(completed)
          /\ ~Exists(catalog, backup_table_name(t))
          /\ active_partitions(catalog, tmp_table_name(t)) # {}

\* C12: a move invoked while merges run on the from-table fails at once: no
\* partition is enumerated, attached or dropped, and the failure is the
\* operation's (forward: the run halts and unwinds; rollback: a rollback
\* error); a move that goes on has read a count of zero.
C12_MoveRefusesRunningMerges ==
    /\ [](mover.running_merges # 0 => ~mover.active /\ mover.partitions = {})
    /\ [][(mover' # mover /\ mover'.running_merges # 0) =>
              /\ catalog' = catalog
              /\ status = "Running" =>
                    /\ status' = "RollingBack"
                    /\ error' = Error("OperationError", current_operation_index, "None")
                    /\ completed' = completed
              /\ status = "RollingBack" => rollback_errors' = Append(rollback_errors, Top)]_vars

C12_Witness ==
    /\ mover.running_merges = 1
    /\ status = "RollingBack"
    /\ rolled_back = << >>
    /\ \E t \in Tables :
          /\ error.operation = MoveIndex(plan, t)
          /\ active_partitions(catalog, t.name) = Partitions
          /\ active_partitions(catalog, tmp_table_name(t)) = {}

\* C13: a partition leaves a table (in a step that is not a rename) only as
\* the partition of a move in progress that is already attached to the
\* to-table, and in every state of the move, a failed attach or drop
\* included, every partition the two tables held is active in one of them.
C13_AttachBeforeDrop ==
    /\ [](\A t \in Tables :
             active_partitions(catalog_at_start, t.name)
                 \cup active_partitions(catalog_at_start, tmp_table_name(t)) \subseteq Held(catalog, t))
    /\ [][\A x \in {y \in DOMAIN catalog : DOMAIN catalog' = DOMAIN catalog} :
              \A p \in catalog[x].parts \ catalog'[x].parts :
                  /\ mover.active
                  /\ x = mover.from_table
                  /\ p = mover.attached
                  /\ p \in active_partitions(catalog, mover.to_table)]_vars

\* A move that failed between two partitions.
C13_Witness ==
    /\ status = "RollingBack"
    /\ ~mover.active
    /\ mover.running_merges = 0
    /\ \E t \in Tables :
          /\ error.operation = MoveIndex(plan, t)
          /\ active_partitions(catalog_at_start, t.name) = Partitions
          /\ active_partitions(catalog_at_start, tmp_table_name(t)) = {}
          /\ active_partitions(catalog, t.name) # {}
          /\ active_partitions(catalog, tmp_table_name(t)) # {}
          /\ active_partitions(catalog, t.name) \cap active_partitions(catalog, tmp_table_name(t)) = {}

\* move(name, tmp) has returned and then move(tmp, name) has returned.
RoundTripDone(table) ==
    LET ops == plan
        i == MoveIndex(ops, table)
    IN  /\ ~mover.active
        /\ i \in Range(completed)
        /\ i \in Range(rolled_back)
        /\ i \notin Range(rollback_errors)
        /\ Len(to_roll_back) < i
        /\ (i + 1) \in Range(rolled_back) => (i + 1) \in Range(completed)

\* C14 as stated: move(A, B) then move(B, A) leaves A with the partitions it
\* had before the first move, whatever A and B held.
C14_RoundTripAnyTables ==
    \A t \in Tables :
        RoundTripDone(t) =>
            active_partitions(catalog, t.name) = active_partitions(catalog_at_start, t.name)

\* C14: move(A, B) then move(B, A) leaves A with the partitions A and B held
\* before the first move and B with none: A's set is the one it had exactly
\* when B's partitions were among A's, as for the newly created tmp table.
C14_RoundTripRestoresPartitions ==
    \A t \in Tables :
        RoundTripDone(t) =>
            LET before_A == active_partitions(catalog_at_start, t.name)
                before_B == active_partitions(catalog_at_start, tmp_table_name(t))
            IN  /\ active_partitions(catalog, t.name) = before_A \cup before_B
                /\ active_partitions(catalog, tmp_table_name(t)) = {}
                /\ before_B \subseteq before_A => active_partitions(catalog, t.name) = before_A

C14_Witness ==
    \E t \in Tables :
        /\ RoundTripDone(t)
        /\ active_partitions(catalog_at_start, t.name) = Partitions
        /\ active_partitions(catalog_at_start, tmp_table_name(t)) = {}
        /\ active_partitions(catalog, t.name) = Partitions
        /\ (MoveIndex(plan, t) + 1) \notin Range(completed)

\* The descriptors that are not sharded and have no ingestion table.
PlainTables == {t \in Tables : ~t.sharded /\ t.kafka_table_name = NoName}

\* C15 as stated: a descriptor that is not sharded and has no ingestion
\* table expands to 4 operations in phase 1 and none in phase 2.
C15_PlainExpansionHasFour ==
    \A t \in PlainTables :
        /\ Len(replicated_table_operations(catalog_at_start, t, now)) = 4
        /\ Len(finalize_table_operations(t)) = 0

\* C15: a descriptor that is not sharded and has no ingestion table expands
\* to 3 operations in phase 1 (create tmp, move partitions, rename) and none
\* in phase 2, 3 in all, and these are its operations in the plan.
C15_PlainExpansionHasThree ==
    \A t \in PlainTables :
        LET phase_1 == replicated_table_operations(catalog_at_start, t, now)
            phase_2 == finalize_table_operations(t)
            ops == plan
        IN  /\ Len(phase_1) = 3
            /\ Len(phase_2) = 0
            /\ Len(phase_1) + Len(phase_2) = 3
            /\ <<phase_1[1].fn.stmt, phase_1[2].fn.stmt, phase_1[3].fn.stmt>>
                   = <<"CREATE TABLE AS", "move_partitions", "rename_tables">>
            /\ Cardinality(OperationsOf(t)) = 3
            /\ \A i \in OperationsOf(t) : IsPhase1(ops[i])

C15_Witness ==
    /\ status = "Running"
    /\ \E t \in PlainTables :
          /\ OperationsOf(t) \subseteq Range(completed)
          /\ active_partitions(catalog, t.name) = Partitions

\* The forward rename of a descriptor has completed and nothing has failed.
RenamedForward(table) ==
    /\ status \in {"Running", "Completed"}
    /\ RenameIndex(plan, table) \in Range(completed)

\* C16: once a descriptor's operations have run forward without failure, the
\* table under the renamed name is the tmp table the run created, with the
\* new engine and exactly the partitions the original table held before the
\* run; the backup table is the original table and holds no partition; the
\* tmp name is gone.
C16_SuccessPostcondition ==
    \A t \in Tables :
        RenamedForward(t) =>
            /\ Exists(catalog, renamed_table_name(t))
            /\ catalog[renamed_table_name(t)] =
                   Row(get_new_engine(catalog_at_start, t, now), catalog_at_start[t.name].parts)
            /\ Exists(catalog, backup_table_name(t))
            /\ catalog[backup_table_name(t)] = Row(catalog_at_start[t.name].engine_full, {})
            /\ ~Exists(catalog, tmp_table_name(t))

C16_Witness ==
    /\ status = "Completed"
    /\ \A t \in Tables :
          /\ OperationsOf(t) \subseteq Range(completed)
          /\ active_partitions(catalog, renamed_table_name(t)) = Partitions
          /\ active_partitions(catalog, backup_table_name(t)) = {}

Reverse(seq) == [i \in 1..Len(seq) |-> seq[Len(seq) + 1 - i]]

\* The completed operations whose rollback has not been invoked yet.
NotYetRolledBack ==
    IF mover.active /\ status = "RollingBack"
    THEN SubSeq(to_roll_back, 1, Len(to_roll_back) - 1)
    ELSE to_roll_back

\* C17: the unwind goes on past a rollback that fails: at every point of the
\* unwind the rollbacks invoked, followed by those still to invoke, are the
\* completed operations in reverse order, each once, whatever the number of
\* rollback errors; the rollback errors are among the rollbacks invoked, and
\* a run that unwinds ends RolledBack.
C17_BestEffortUnwind ==
    /\ status \in {"RollingBack", "RolledBack"} =>
          /\ rolled_back \o Reverse(NotYetRolledBack) = Reverse(completed)
          /\ Range(rollback_errors) \subseteq Range(rolled_back)
          /\ error.kind = "OperationError"
    /\ status = "RolledBack" => rolled_back = Reverse(completed)
    /\ rollback_errors # << >> => status \in {"RollingBack", "RolledBack"}

\* An unwind that went on after the rollback of an operation raised.
C17_Witness ==
    /\ status = "RolledBack"
    /\ Len(completed) >= 3
    /\ rollback_errors = <<Len(completed) - 1>>
    /\ rolled_back[Len(rolled_back)] = 1

\* C18: the tmp and backup names of a run are its own: the tmp name a run
\* is about to create and the backup name it is about to rename to are not
\* names of tables an earlier run left in the catalog.
C18_NamesUniquePerRun ==
    (status = "Running" /\ ~mover.active /\ current_operation_index <= Len(plan)) =>
        LET a == plan[current_operation_index].fn
        IN  /\ a.stmt = "CREATE TABLE AS" => ~Exists(catalog, a.table)
            /\ a.stmt = "rename_tables" => ~Exists(catalog, a.rename_1[2])

\* C19: in a run, the first or a retry, no forward operation is refused by
\* the catalog: an operation that fails would have succeeded on the catalog
\* it met, whatever tables an earlier run left there.
C19_RetriesAreSafe ==
    [][(/\ status = "Running" /\ status' = "RollingBack"
        /\ ~mover.active
        /\ ~IsMove(plan[current_operation_index].fn)) =>
            execute_op(CurrentWorld, plan[current_operation_index].fn).ok]_vars

\* The step builds the plan of a run, from the engines the previous build read.
PlanRebuilt ==
    /\ status = "NotStarted"
    /\ status' # "NotStarted"
    /\ catalog_at_start' = catalog_at_start

\* C20 as stated: the plan built again from the same descriptors and the
\* same current engines is the same list of operations.
C20_PlanDeterministic ==
    [][PlanRebuilt => operations(catalog_at_start, now') = operations(catalog_at_start, now)]_vars

\* C20: the plan built again from the same descriptors and the same current
\* engines has the same operations in the same order but for the zookeeper
\* path key in the new engine of the create-tmp statements, which is the
\* second the plan was built in; built in the same second, it is the same
\* list.
C20_PlanDeterministicButKey ==
    [][PlanRebuilt =>
          LET old == operations(catalog_at_start, now)
              new == operations(catalog_at_start, now')
          IN  /\ Len(new) = Len(old)
              /\ \A i \in 1..Len(old) :
                    \/ new[i] = old[i]
                    \/ /\ old[i].fn.stmt = "CREATE TABLE AS"
                       /\ old[i].fn.engine_full[3] = strftime(now)
                       /\ new[i] = [old[i] EXCEPT !.fn.engine_full[3] = strftime(now')]
              /\ now' = now => new = old]_vars

\* A plan built in second 2 from the catalog as deployed.
C20_Witness ==
    /\ now = 2
    /\ status = "PreconditionChecking"
    /\ \E parts \in SUBSET Partitions :
          catalog_at_start = InitialCatalog([x \in {t.name : t \in Tables} |-> parts])
    /\ LET ops == plan
       IN  \E i \in 1..Len(ops) :
              /\ ops[i].fn.stmt = "CREATE TABLE AS"
              /\ ops[i].fn.engine_full[3] = "am0004_2"

\* The operations of a plan that have no rollback.
Irreversible(ops) == {i \in 1..Len(ops) : ops[i].rollback_fn = NoAction}

\* C21 as stated: an operation without rollback is the drop of a
\* materialized view and the very next operation recreates that view.
C21_RecreateRightAfterDrop ==
    LET ops == plan
    IN  \A i \in Irreversible(ops) :
            /\ i < Len(ops)
            /\ ops[i].fn.stmt = "DROP TABLE IF EXISTS"
            /\ ops[i + 1].fn = CreateTableIfNotExists(ops[i].fn.table, ViewFull)

\* C21: an operation without rollback is the drop of a materialized view of
\* a sharded table, in that table's phase-2 block; the view is recreated by
\* the next operation when the table has no ingestion table, and otherwise
\* by the one after the recreation of that table's ingestion table, which is
\* the only operation between the drop and the recreate.
C21_RecreateFollowsDrop ==
    LET ops == plan
    IN  \A i \in Irreversible(ops) :
            \E t \in Tables :
                LET k == IF t.kafka_table_name # NoName THEN i + 2 ELSE i + 1
                IN  /\ t.sharded
                    /\ ops[i].fn = DropTableIfExists(t.materialized_view_name)
                    /\ k <= Len(ops)
                    /\ ops[k].fn = create_materialized_view(t)
                    /\ k = i + 2 => ops[i + 1].fn = create_kafka_table(t)
                    /\ \A j \in i..k : IsPhase2(ops[j]) /\ Owner(ops[j]) = Owner(ops[i])

\* The view is dropped and the ingestion table is back; the view is not yet.
C21_Witness ==
    /\ status = "Running"
    /\ LET ops == plan
       IN  \E i \in Irreversible(ops) :
              /\ (i + 1) \in Range(completed)
              /\ (i + 2) \notin Range(attempted)
              /\ ~Exists(catalog, ops[i].fn.table)
              /\ ops[i + 1].fn.stmt = "CREATE TABLE IF NOT EXISTS"
              /\ Exists(catalog, ops[i + 1].fn.table)

Terminal == {"SkippedNotRequired", "Failed", "Completed", "RolledBack"}

\* The edges of the state machine as drawn.
EdgesAsDrawn ==
    {<<"NotStarted", "PreconditionChecking">>, <<"PreconditionChecking", "Running">>,
     <<"Running", "Completed">>, <<"Running", "RollingBack">>, <<"RollingBack", "RolledBack">>,
     <<"Running", "Failed">>}

\* The edges that end a run before it starts running.
EdgesBeforeRunning ==
    {<<"NotStarted", "SkippedNotRequired">>, <<"NotStarted", "Failed">>,
     <<"PreconditionChecking", "Failed">>}

\* The status changes along the given edges only; a terminal status changes
\* only when the migration is invoked again, which starts a new run.
AlongEdges(edges) ==
    status' # status =>
        \/ <<status, status'>> \in edges
        \/ /\ status \in Terminal
           /\ status' = "NotStarted"
           /\ attempted' = << >> /\ completed' = << >> /\ rolled_back' = << >>

Phase1InPlan(table) ==
    LET family == Family(table)
    IN  SelectSeq(plan, LAMBDA op : IsPhase1(op) /\ Subject(op.fn) \in family)

\* The phase-1 expansion as the specification lists it: create tmp, the
\* ingestion drop when there is an ingestion table, the move, the rename.
Phase1AsListed(table, ops) ==
    LET k      == IF table.kafka_table_name # NoName THEN 1 ELSE 0
        tmp    == tmp_table_name(table)
        create == ops[1]
        move   == ops[2 + k]
        rename == ops[3 + k]
    IN  /\ Len(ops) = 3 + k
        /\ create.fn.stmt = "CREATE TABLE AS"
        /\ create.fn.table = tmp /\ create.fn.source = table.name
        /\ Head(create.fn.engine_full) = Replicated
        /\ create.rollback_fn = DropTableIfExists(tmp)
        /\ k = 1 =>
              /\ ops[2].fn = DropTableIfExists(table.kafka_table_name)
              /\ ops[2].rollback_fn = CreateTableIfNotExists(table.kafka_table_name, KafkaFull)
        /\ move.fn = MovePartitions(table.name, tmp)
        /\ move.rollback_fn = MovePartitions(tmp, table.name)
        /\ rename.fn.stmt = "rename_tables"
        /\ rename.fn.rename_1 = <<table.name, backup_table_name(table)>>
        /\ rename.fn.rename_2 = <<tmp, renamed_table_name(table)>>
        /\ rename.fn.verify_table_exists = NoName
        /\ rename.rollback_fn.stmt = "rename_tables"
        /\ rename.rollback_fn.rename_1 = Reverse(rename.fn.rename_2)
        /\ rename.rollback_fn.rename_2 = Reverse(rename.fn.rename_1)
        /\ rename.rollback_fn.verify_table_exists = backup_table_name(table)

\* C24: in every run that the required-ness check lets through, the phase-1
\* operations the plan holds for a descriptor are, in this order and with
\* nothing else: create the tmp table with the
\* new engine (rollback: drop it if it exists); only with an ingestion
\* table, drop it (rollback: recreate it); move the partitions from the
\* table to the tmp table (rollback: move them back); the double rename
\* (rollback: the inverse rename, guarded by the backup table's existence).
C24_Phase1Expansion ==
    is_required(catalog_at_start) = "required" =>
        \A table \in Tables : Phase1AsListed(table, Phase1InPlan(table))

\* A run has executed the whole phase 1 of a descriptor with an ingestion
\* table and of one without.
C24_Witness ==
    /\ status = "Running"
    /\ \E t1, t2 \in Tables :
          /\ t1.kafka_table_name # NoName /\ t2.kafka_table_name = NoName
          /\ Len(Phase1InPlan(t1)) = 4 /\ Len(Phase1InPlan(t2)) = 3
          /\ RenameIndex(plan, t1) \in Range(completed)
          /\ RenameIndex(plan, t2) \in Range(completed)
          /\ Exists(catalog, backup_table_name(t1)) /\ Exists(catalog, backup_table_name(t2))

\* The phase-2 operations of one descriptor, in the order the plan holds them.
Phase2InPlan(table) ==
    LET family == Family(table)
    IN  SelectSeq(plan, LAMBDA op : IsPhase2(op) /\ Subject(op.fn) \in family)

\* The phase-2 expansion as the specification lists it: the extra tables in
\* mapping order, the drop of the stale view, the ingestion table, the view.
Phase2AsListed(table, ops) ==
    LET e == IF table.sharded THEN Len(table.extra_tables) ELSE 0
        v == IF table.sharded /\ table.materialized_view_name # NoName THEN 1 ELSE 0
        k == IF table.kafka_table_name # NoName THEN 1 ELSE 0
    IN  /\ Len(ops) = e + v + k + v
        /\ \A i \in 1..e :
              /\ ops[i].fn.stmt = "CREATE TABLE IF NOT EXISTS"
              /\ ops[i].fn.table = table.extra_tables[i]
              /\ ops[i].rollback_fn = DropTableIfExists(table.extra_tables[i])
        /\ v = 1 =>
              /\ ops[e + 1].fn = DropTableIfExists(table.materialized_view_name)
              /\ ops[e + 1].rollback_fn = NoAction
        /\ k = 1 =>
              /\ ops[e + v + 1].fn = CreateTableIfNotExists(table.kafka_table_name, KafkaFull)
              /\ ops[e + v + 1].rollback_fn = DropTableIfExists(table.kafka_table_name)
        /\ v = 1 =>
              /\ ops[e + v + k + 1].fn =
                     CreateTableIfNotExists(table.materialized_view_name, ViewFull)
              /\ ops[e + v + k + 1].rollback_fn = DropTableIfExists(table.materialized_view_name)
        /\ ~table.sharded => Len(ops) <= 1

\* C25: in every run, the phase-2 operations the plan holds for a descriptor
\* are, in this order and with nothing else: for a sharded descriptor, the
\* creation of each extra table in mapping order (rollback: drop it); for a
\* sharded descriptor with a view, the drop of the view, without rollback;
\* with an ingestion table, its creation (rollback: drop it); for a sharded
\* descriptor with a view, the creation of the view (rollback: drop it).  A
\* non-sharded descriptor has at most the ingestion-table operation.
C25_Phase2Expansion == \A table \in Tables : Phase2AsListed(table, Phase2InPlan(table))

\* A run has executed the whole phase 2 of a sharded descriptor with extra
\* tables and a view, of a non-sharded one with an ingestion table and of
\* one with no phase-2 operation.
C25_Witness ==
    /\ status = "Running"
    /\ current_operation_index = Len(plan) - 1
    /\ (Len(plan) - 2) \in Range(completed)
    /\ \E t1, t2, t3 \in Tables :
          /\ t1.sharded /\ Len(Phase2InPlan(t1)) = 5
          /\ ~t2.sharded /\ Len(Phase2InPlan(t2)) = 1
          /\ Len(Phase2InPlan(t3)) = 0
          /\ \A i \in 1..Len(t1.extra_tables) : Exists(catalog, t1.extra_tables[i])
          /\ Exists(catalog, t1.materialized_view_name)
          /\ Exists(catalog, t1.kafka_table_name) /\ Exists(catalog, t2.kafka_table_name)

\* C26: the plan of every run is bracketed: its first operation stops the
\* merges (rollback: start them), its last operation starts them (rollback:
\* stop them), and the operation after the first and the one before the
\* last each set the compute-materialized-columns flag to disabled; a
\* running migration starts the merges again only with all operations
\* before the last completed and the flag disabled.
C26_PlanBracketed ==
    /\ [](LET ops == plan
              n   == Len(ops)
          IN  /\ n >= 4
              /\ ops[1].fn = SystemMerges(TRUE) /\ ops[1].rollback_fn = SystemMerges(FALSE)
              /\ ops[n].fn = SystemMerges(FALSE) /\ ops[n].rollback_fn = SystemMerges(TRUE)
              /\ ops[2].fn = SetComputeMaterializedColumns(FALSE)
              /\ ops[n - 1].fn = SetComputeMaterializedColumns(FALSE)
              /\ \A i \in 3..(n - 2) : ops[i].fn.stmt \notin {"SYSTEM MERGES", "setattr"})
    /\ [][(status = "Running" /\ merges_stopped /\ ~merges_stopped') =>
             /\ current_operation_index = Len(plan)
             /\ completed = UpTo(Len(plan) - 1)
             /\ ~config /\ ~config']_vars

\* A run has executed the whole plan: the merges run again and the flag is
\* disabled.
C26_Witness ==
    /\ status = "Completed"
    /\ completed = UpTo(Len(plan))
    /\ ~merges_stopped
    /\ ~config
    /\ config_at_start

\* C27: when a run has reached Completed, the compute-materialized-columns
\* flag is enabled again.
C27_FlagEnabledAtCompleted ==
    (status = "Completed" /\ completed = UpTo(Len(plan))) => config

\* C28: while the partition mover runs for a table, forward or as a rollback,
\* also after rollbacks that failed earlier in the unwind, the merges are
\* stopped and the table's ingestion table is absent from the catalog.
C28_MoverRunsQuiesced ==
    mover.active =>
        /\ merges_stopped
        /\ \A t \in Tables :
              (mover.from_table \in {t.name, tmp_table_name(t)} /\ t.kafka_table_name # NoName)
                  => ~Exists(catalog, t.kafka_table_name)

NoDuplicates(seq) == \A i, j \in 1..Len(seq) : seq[i] = seq[j] => i = j

\* C29: a run that has started reaches a terminal status (not required,
\* failed, completed or rolled back), given that every action returns or
\* fails; within a run no operation's forward action is started twice, no
\* operation's rollback is started twice, only completed operations are
\* rolled back, and the mover takes each enumerated partition once.
C29_RunTerminates ==
    /\ [](/\ NoDuplicates(attempted) /\ NoDuplicates(rolled_back)
          /\ Range(rolled_back) \subseteq Range(completed)
          /\ mover.active => mover.partitions \subseteq active_partitions(catalog, mover.from_table))
    /\ (status \in {"PreconditionChecking", "Running", "RollingBack"}) ~> (status \in Terminal)

\* A run ended rolled back after a move ran forward and back and one
\* rollback failed.
C29_Witness ==
    /\ status = "RolledBack"
    /\ rollback_errors # << >>
    /\ \E t \in Tables :
          /\ MoveIndex(plan, t) \in Range(completed)
          /\ MoveIndex(plan, t) \in Range(rolled_back)
          /\ active_partitions(catalog_at_start, t.name) # {}

\* The engine statement new is the statement current with the text up to and
\* including a MergeTree-family constructor replaced by the new engine: it
\* begins with the new engine, goes on with the clauses that follow the
\* constructor in current, unchanged, and holds no other constructor.
Substituted(new_table_engine, current, new) ==
    LET n == Len(new_table_engine)
    IN  /\ Len(new) >= n
        /\ SubSeq(new, 1, n) = new_table_engine
        /\ \E k \in 1..Len(current) :
              /\ current[k] = ")"
              /\ \E i \in 1..k : current[i] \in MergeTreeFamilies
              /\ SubSeq(new, n + 1, Len(new)) = SubSeq(current, k + 1, Len(current))
        /\ \A j \in (n + 1)..Len(new) : new[j] \notin MergeTreeFamilies

\* C30: for the current engine statement of every table to migrate, the
\* new engine statement begins with the new engine, keeps every clause that
\* follows the MergeTree-family constructor as it is, and no longer holds
\* the old constructor.
C30_EngineSubstituted ==
    \A t \in Tables :
        Exists(catalog_at_start, t.name) =>
            Substituted(ReplicatedEngine(strftime(now)),
                        get_current_engine(catalog_at_start, t.name),
                        get_new_engine(catalog_at_start, t, now))

\* The move of one descriptor's table has just returned.
MoveReturnedFor(t) ==
    /\ status = "Running"
    /\ ~mover.active
    /\ completed # << >>
    /\ completed[Len(completed)] = MoveIndex(plan, t)

\* C31: the mover reads system.merges and lists the active partitions once
\* per call: while it runs the list only shrinks, only listed partitions
\* are attached to the to-table, a DROP removes its partition and nothing
\* else, and the move returns whatever became active meanwhile; with
\* merges stopped no merge becomes active during the move, and without
\* ingestion table no partition does, so that the move leaves the
\* from-table empty.
C31_CheckThenAct ==
    /\ [][/\ (mover.active /\ mover'.active) =>
                /\ mover'.partitions \subseteq mover.partitions
                /\ mover'.running_merges = 0
          /\ active_partitions(catalog', mover.to_table)
                \subseteq active_partitions(catalog, mover.to_table) \cup mover.partitions
          /\ active_partitions(catalog, mover.from_table) \ {mover.attached}
                \subseteq active_partitions(catalog', mover.from_table)
          /\ (mover.active /\ merges_stopped) => mover'.late_merges = mover.late_merges
          /\ (mover.active /\ ~Ingesting(catalog, mover.from_table)) =>
                active_partitions(catalog', mover.from_table)
                    \subseteq active_partitions(catalog, mover.from_table)]_vars
    /\ [](\A t \in Tables :
             (MoveReturnedFor(t) /\ merges_stopped /\ ~Ingesting(catalog, t.name)) =>
                 /\ mover.late_merges = 0
                 /\ active_partitions(catalog, t.name) = {})

\* A move has returned although a merge became active on the from-table
\* after the check and a partition became active in it after the listing:
\* that partition is still in the from-table and not in the to-table.
C31_Witness ==
    \E t \in Tables :
        /\ MoveReturnedFor(t)
        /\ mover.late_merges = 1
        /\ \E p \in active_partitions(catalog, t.name) :
              p \notin active_partitions(catalog, tmp_table_name(t))
        /\ active_partitions(catalog, tmp_table_name(t)) # {}

\* C32: after a run that failed at an operation and whose rollback has
\* finished, the compute-materialized-columns flag has the value it had
\* before the run.
C32_FlagRestoredByRollback ==
    (status = "RolledBack" /\ rollback_errors = << >>) => config = config_at_start

\* C33: after a run that failed at an operation of phase 2 and whose
\* rollback has finished, the materialized view of every sharded table and
\* the ingestion table of every descriptor exist iff they did before the run.
C33_IngestionRestoredByRollback ==
    (/\ status = "RolledBack" /\ rollback_errors = << >>
     /\ error.operation \in 1..Len(plan)
     /\ Owner(plan[error.operation]) # 0 /\ IsPhase2(plan[error.operation])) =>
        \A t \in Tables :
            /\ t.materialized_view_name # NoName =>
                  (Exists(catalog, t.materialized_view_name)
                      <=> Exists(catalog_at_start, t.materialized_view_name))
            /\ t.kafka_table_name # NoName =>
                  (Exists(catalog, t.kafka_table_name)
                      <=> Exists(catalog_at_start, t.kafka_table_name))

\* C34: the required-ness check ends with a verdict, required or not
\* required, on every catalog it is asked on, the one without table
\* `events` included: no check asked outside a run and no check that
\* starts a run ends in an error.
C34_RequiredCheckNeverRaises ==
    /\ \A i \in 1..Len(verdicts) : verdicts[i] \in {"required", "not_required"}
    /\ error.kind # "TypeError"

\* C35: in every state of a run, from its start to its terminal status, a
\* table exists under the name of every descriptor, the sharded ones
\* included.
C35_LiveNameAlwaysResolves ==
    status \in {"PreconditionChecking", "Running", "RollingBack"} =>
        \A t \in Tables : Exists(catalog, t.name)

====
